---------------------------- MODULE Spec2Model ----------------------------
(***************************************************************************)
(* A model of scripts/build-jobs.js: the issue-form tokenizer, the field   *)
(* validators, the record builder (buildJobs) and the run (main) that      *)
(* sorts, writes and schema-checks the feed.                               *)
(*                                                                         *)
(* JavaScript strings are TLA+ strings, taken apart one character at a     *)
(* time with SubSeq(s, i, i).  A nullable JavaScript value is a tagged     *)
(* record: Null, JStr(s) or JBool(b).                                      *)
(***************************************************************************)
EXTENDS Integers, Sequences, FiniteSets, TLC

VARIABLES
    \* the run (main and the loop of buildJobs)
    pc,             \* where main stands
    issues,         \* the batch fetchApprovedIssues returned
    idx,            \* number of issues the for-loop of buildJobs has consumed
    jobs,           \* buildJobs: jobs (after "sort": the sorted array)
    invalidIssues,  \* buildJobs: invalidIssues
    expiredCount,   \* buildJobs: expiredCount
    now,            \* the wall clock's UTC date, what new Date() reads
    ticks,          \* how many UTC midnights the clock has passed
    file,           \* the output file: [exists, content, writes]
    outcome,        \* how the run ended: "running", "ok", the fatal error's kind
    log,            \* history: per consumed issue, its verdict and the date read
    \* parseIssueForm applied to one body
    body,           \* the document
    fields,         \* the FieldMap returned
    formDone,       \* parseIssueForm has returned
    \* parseTags applied to one value
    tagValue,       \* the value
    tagResult,      \* [tags, errors] returned
    tagDone         \* parseTags has returned

vars == <<pc, issues, idx, jobs, invalidIssues, expiredCount, now, ticks,
          file, outcome, log, body, fields, formDone, tagValue, tagResult,
          tagDone>>

runVars == <<pc, issues, idx, jobs, invalidIssues, expiredCount, now, ticks,
             file, outcome, log>>
formVars == <<body, fields, formDone>>
tagVars == <<tagValue, tagResult, tagDone>>

---------------------------------------------------------------------------
(* Bounds of the model.                                                    *)

MaxIssues == 3      \* issues in a batch
MaxTicks == 2       \* UTC midnights that pass during a run
MaxLines == 5       \* lines of a body given to parseIssueForm alone
MaxPieces == 4      \* comma-separated pieces of a value given to parseTags alone

---------------------------------------------------------------------------
(* Strings.                                                                *)

\* s[i] of JavaScript
CharAt(s, i) == SubSeq(s, i, i)

\* the characters the model's inputs use, in code-unit order
AsciiOrder ==
    "\t\n\r !\"#()*+,-./0123456789:;<=>?@ABCDEFGHIJKLMNOPQRSTUVWXYZ[]_abcdefghijklmnopqrstuvwxyz{|}~"

CharCode ==
    [c \in {CharAt(AsciiOrder, i) : i \in 1..Len(AsciiOrder)} |->
        CHOOSE i \in 1..Len(AsciiOrder) : CharAt(AsciiOrder, i) = c]

UpperChars == "ABCDEFGHIJKLMNOPQRSTUVWXYZ"
LowerChars == "abcdefghijklmnopqrstuvwxyz"
DigitChars == "0123456789"

LowerOf ==
    [c \in {CharAt(UpperChars, i) : i \in 1..26} |->
        CharAt(LowerChars, CHOOSE i \in 1..26 : CharAt(UpperChars, i) = c)]

IsUpper(c) == c \in DOMAIN LowerOf
IsDigit(c) == c \in {CharAt(DigitChars, i) : i \in 1..10}
IsLowerAlnum(c) == IsDigit(c) \/ c \in {CharAt(LowerChars, i) : i \in 1..26}
\* \s of a regular expression, and what trim() removes
IsSpace(c) == c \in {" ", "\t", "\n", "\r"}

DigitValue(c) == (CHOOSE i \in 1..10 : CharAt(DigitChars, i) = c) - 1

Min(S) == CHOOSE x \in S : \A y \in S : x <= y
Max(S) == CHOOSE x \in S : \A y \in S : x >= y

\* f[lo] \o ... \o f[hi], by halves
RECURSIVE ConcatRange(_, _, _)
ConcatRange(f, lo, hi) ==
    IF lo > hi THEN ""
    ELSE IF lo = hi THEN f[lo]
    ELSE LET mid == (lo + hi) \div 2
         IN  ConcatRange(f, lo, mid) \o ConcatRange(f, mid + 1, hi)

ToLowerCase(s) ==
    ConcatRange([i \in 1..Len(s) |->
                    IF IsUpper(CharAt(s, i)) THEN LowerOf[CharAt(s, i)]
                    ELSE CharAt(s, i)],
                1, Len(s))

NonSpaceAt(s) == {i \in 1..Len(s) : ~IsSpace(CharAt(s, i))}

TrimStart(s) ==
    IF NonSpaceAt(s) = {} THEN "" ELSE SubSeq(s, Min(NonSpaceAt(s)), Len(s))

TrimEnd(s) ==
    IF NonSpaceAt(s) = {} THEN "" ELSE SubSeq(s, 1, Max(NonSpaceAt(s)))

Trim(s) == TrimEnd(TrimStart(s))

\* s.split(sep) for a one-character separator: the pieces, empty ones kept
Split(s, sep) ==
    LET seps == {i \in 1..Len(s) : CharAt(s, i) = sep}
        n == Cardinality(seps)
        cut(k) == IF k = 0 THEN 0
                  ELSE IF k = n + 1 THEN Len(s) + 1
                  ELSE CHOOSE p \in seps :
                          Cardinality({q \in seps : q <= p}) = k
    IN  [k \in 1..(n + 1) |-> SubSeq(s, cut(k - 1) + 1, cut(k) - 1)]

\* s.split(/\r?\n/): a carriage return right before the line feed goes with it
StripCr(line) ==
    IF line # "" /\ CharAt(line, Len(line)) = "\r"
    THEN SubSeq(line, 1, Len(line) - 1)
    ELSE line

SplitLines(s) ==
    LET raw == Split(s, "\n")
    IN  [i \in 1..Len(raw) |-> IF i < Len(raw) THEN StripCr(raw[i]) ELSE raw[i]]

\* lines.join("\n")
JoinLines(lines) ==
    ConcatRange([i \in 1..Len(lines) |->
                    IF i < Len(lines) THEN lines[i] \o "\n" ELSE lines[i]],
                1, Len(lines))

\* s.replace(/\s+/g, " ")
CollapseSpace(s) ==
    ConcatRange([i \in 1..Len(s) |->
                    IF ~IsSpace(CharAt(s, i)) THEN CharAt(s, i)
                    ELSE IF i > 1 /\ IsSpace(CharAt(s, i - 1)) THEN ""
                    ELSE " "],
                1, Len(s))

\* s.replace(/[^a-z0-9]+/g, " ")
CollapseNonAlnum(s) ==
    ConcatRange([i \in 1..Len(s) |->
                    IF IsLowerAlnum(CharAt(s, i)) THEN CharAt(s, i)
                    ELSE IF i > 1 /\ ~IsLowerAlnum(CharAt(s, i - 1)) THEN ""
                    ELSE " "],
                1, Len(s))

\* a < b, a = b, a > b of JavaScript strings, by code units: -1, 0, 1
CompareStrings(a, b) ==
    LET shorter == IF Len(a) < Len(b) THEN Len(a) ELSE Len(b)
        differ == {i \in 1..shorter : CharAt(a, i) # CharAt(b, i)}
    IN  IF differ # {}
        THEN (IF CharCode[CharAt(a, Min(differ))] < CharCode[CharAt(b, Min(differ))]
              THEN -1 ELSE 1)
        ELSE IF Len(a) < Len(b) THEN -1
        ELSE IF Len(a) > Len(b) THEN 1
        ELSE 0

\* Number(part) of a string of digits
RECURSIVE DigitsToNumber(_, _)
DigitsToNumber(s, acc) ==
    IF s = "" THEN acc
    ELSE DigitsToNumber(Tail(s), 10 * acc + DigitValue(Head(s)))

AllDigits(s) == \A i \in 1..Len(s) : IsDigit(CharAt(s, i))

\* a number as width digits, zero-padded (toISOString's fields)
RECURSIVE PadNumber(_, _)
PadNumber(n, width) ==
    IF width = 0 THEN ""
    ELSE PadNumber(n \div 10, width - 1) \o CharAt(DigitChars, (n % 10) + 1)

---------------------------------------------------------------------------
(* JavaScript values that may be null.                                     *)

Null == [t |-> "null"]
JStr(s) == [t |-> "string", v |-> s]
JBool(b) == [t |-> "boolean", v |-> b]

---------------------------------------------------------------------------
(* The heading tokenizer.                                                  *)

HeadingNames ==
    {"company name", "role title", "location", "remote", "employment type",
     "seniority", "tags keywords", "apply url", "description",
     "salary range", "contact email", "expiry date", "confirmation"}

EXPECTED_HEADINGS ==
    [h \in HeadingNames |->
        CASE h = "company name" -> "company"
          [] h = "role title" -> "title"
          [] h = "location" -> "location"
          [] h = "remote" -> "remote"
          [] h = "employment type" -> "employmentType"
          [] h = "seniority" -> "seniority"
          [] h = "tags keywords" -> "tags"
          [] h = "apply url" -> "applyUrl"
          [] h = "description" -> "description"
          [] h = "salary range" -> "salaryRange"
          [] h = "contact email" -> "contactEmail"
          [] h = "expiry date" -> "expiryDate"
          [] h = "confirmation" -> "confirmation"]

normalizeHeading(text) == Trim(CollapseNonAlnum(ToLowerCase(text)))

normalizeValue(value) ==
    LET trimmed == Trim(value)
        normalized == ToLowerCase(CollapseSpace(trimmed))
    IN  IF trimmed = "" THEN ""
        ELSE IF normalized = "_no response_" \/ normalized = "no response"
             THEN ""
        ELSE trimmed

\* the number of leading # characters
CountHashes(s) ==
    LET others == {i \in 1..Len(s) : CharAt(s, i) # "#"}
    IN  IF others = {} THEN Len(s) ELSE Min(others) - 1

\* /^#{2,6}\s+(.+?)\s*$/.exec(line.trim()): the captured text, or "" when the
\* line is no heading (a heading's captured text is never empty)
HeadingText(line) ==
    LET t == Trim(line)
        n == CountHashes(t)
    IN  IF n >= 2 /\ n <= 6 /\ Len(t) > n /\ IsSpace(CharAt(t, n + 1))
        THEN TrimStart(SubSeq(t, n + 1, Len(t)))
        ELSE ""

\* the field key of a recognized heading line, or "" (lines 95-99)
HeadingKey(line) ==
    LET text == HeadingText(line)
        normalized == normalizeHeading(text)
    IN  IF text # "" /\ normalized \in HeadingNames
        THEN EXPECTED_HEADINGS[normalized]
        ELSE ""

\* commit, mutated: a later section of a key replaces the committed value
commitLastWins(st) ==
    IF st.currentKey = "" THEN st.fields
    ELSE [k \in DOMAIN st.fields \cup {st.currentKey} |->
            IF k = st.currentKey
            THEN normalizeValue(Trim(JoinLines(st.buffer)))
            ELSE st.fields[k]]

\* commit: the fields after the open buffer is committed
commit(st) ==
    IF st.currentKey = "" THEN st.fields
    ELSE IF st.currentKey \in DOMAIN st.fields THEN st.fields
    ELSE [k \in DOMAIN st.fields \cup {st.currentKey} |->
            IF k = st.currentKey
            THEN normalizeValue(Trim(JoinLines(st.buffer)))
            ELSE st.fields[k]]

EmptyFields == [k \in {} |-> ""]

\* one turn of the for-loop over the lines
FormLine(st, line) ==
    LET key == HeadingKey(line)
    IN  IF key # ""
        THEN [fields |-> commit(st), currentKey |-> key, buffer |-> <<>>]
        ELSE IF st.currentKey # ""
             THEN [st EXCEPT !.buffer = Append(st.buffer, line)]
             ELSE st

\* the state of the for-loop after the first n lines
RECURSIVE FormLoop(_, _)
FormLoop(lines, n) ==
    IF n = 0
    THEN [fields |-> EmptyFields, currentKey |-> "", buffer |-> <<>>]
    ELSE FormLine(FormLoop(lines, n - 1), lines[n])

parseIssueForm(b) ==
    IF b = "" THEN EmptyFields
    ELSE commit(FormLoop(SplitLines(b), Len(SplitLines(b))))

---------------------------------------------------------------------------
(* The field validators.  Each returns [value, errors]: what the function  *)
(* returns and the error accumulator after the call.                       *)

\* fields.key of JavaScript: an absent key reads as undefined, which every
\* validator treats as it treats "" (both are falsy)
Field(fm, key) == IF key \in DOMAIN fm THEN fm[key] ELSE ""

requireValue(value, label, errors) ==
    IF value = ""
    THEN [value |-> "", errors |-> Append(errors, label \o " is required")]
    ELSE [value |-> value, errors |-> errors]

NonEmpty(s) == s # ""

\* the for-loop of parseTags, mutated: the seen-set holds the items as written
RECURSIVE TagLoopCaseSensitive(_, _, _)
TagLoopCaseSensitive(items, seen, tags) ==
    IF items = <<>> THEN tags
    ELSE IF Head(items) \notin seen
         THEN TagLoopCaseSensitive(Tail(items), seen \cup {Head(items)},
                                   Append(tags, Head(items)))
         ELSE TagLoopCaseSensitive(Tail(items), seen, tags)

\* the for-loop of parseTags over rawItems
RECURSIVE TagLoop(_, _, _)
TagLoop(items, seen, tags) ==
    IF items = <<>> THEN tags
    ELSE LET key == ToLowerCase(Head(items))
         IN  IF key \notin seen
             THEN TagLoop(Tail(items), seen \cup {key}, Append(tags, Head(items)))
             ELSE TagLoop(Tail(items), seen, tags)

parseTags(value, errors) ==
    IF value = ""
    THEN [value |-> <<>>, errors |-> Append(errors, "Tags/keywords is required")]
    ELSE LET pieces == Split(value, ",")
             rawItems == SelectSeq([i \in 1..Len(pieces) |-> Trim(pieces[i])],
                                   NonEmpty)
             tags == TagLoop(rawItems, {}, <<>>)
         IN  [value |-> tags,
              errors |-> IF tags = <<>>
                         THEN Append(errors,
                                "Tags/keywords must include at least one value")
                         ELSE errors]

parseRemote(value, errors) ==
    IF value = ""
    THEN [value |-> Null, errors |-> Append(errors, "Remote is required")]
    ELSE LET normalized == ToLowerCase(Trim(value))
         IN  IF normalized \in {"yes", "y", "true"}
             THEN [value |-> JBool(TRUE), errors |-> errors]
             ELSE IF normalized \in {"no", "n", "false"}
             THEN [value |-> JBool(FALSE), errors |-> errors]
             ELSE [value |-> Null,
                   errors |-> Append(errors,
                       "Remote must be Yes or No (got \"" \o value \o "\")")]

IsAlpha(c) == IsUpper(c) \/ (IsLowerAlnum(c) /\ ~IsDigit(c))
IsSchemeChar(c) == IsAlpha(c) \/ IsDigit(c) \/ c \in {"+", "-", "."}

\* new URL(value).protocol, or "" when the constructor throws.  The WHATWG
\* parser as far as the model's inputs exercise it: with no base, a URL needs
\* a scheme; an http or https URL needs a host, and a host holds no space.
UrlProtocol(value) ==
    LET s == Trim(value)
        colons == {i \in 1..Len(s) : CharAt(s, i) = ":"}
        c == Min(colons)
        scheme == SubSeq(s, 1, c - 1)
        rest == SubSeq(s, c + 1, Len(s))
        noSlash == {i \in 1..Len(rest) : CharAt(rest, i) \notin {"/", "\\"}}
        hostOn == SubSeq(rest, Min(noSlash), Len(rest))
        ends == {i \in 1..Len(hostOn) : CharAt(hostOn, i) \in {"/", "\\", "?", "#"}}
        host == IF ends = {} THEN hostOn ELSE SubSeq(hostOn, 1, Min(ends) - 1)
    IN  IF colons = {} \/ scheme = "" THEN ""
        ELSE IF ~IsAlpha(Head(scheme))
                \/ \E i \in 1..Len(scheme) : ~IsSchemeChar(CharAt(scheme, i))
        THEN ""
        ELSE IF ToLowerCase(scheme) \in {"http", "https"}
        THEN IF noSlash = {} \/ host = ""
                \/ \E i \in 1..Len(host) : IsSpace(CharAt(host, i))
             THEN ""
             ELSE ToLowerCase(scheme) \o ":"
        ELSE ToLowerCase(scheme) \o ":"

parseApplyUrl(value, errors) ==
    IF value = ""
    THEN [value |-> Null, errors |-> Append(errors, "Apply URL is required")]
    ELSE IF UrlProtocol(value) = ""
    THEN [value |-> Null,
          errors |-> Append(errors, "Apply URL must be a valid URL")]
    ELSE IF UrlProtocol(value) # "http:" /\ UrlProtocol(value) # "https:"
    THEN [value |-> Null,
          errors |-> Append(errors,
                        "Apply URL must start with http:// or https://")]
    ELSE [value |-> JStr(value), errors |-> errors]

IsLeapYear(y) == (y % 4 = 0 /\ y % 100 # 0) \/ y % 400 = 0

\* days of month m (0-based, as JavaScript counts months) of year y
DaysInMonth(y, m) ==
    IF m = 1 THEN (IF IsLeapYear(y) THEN 29 ELSE 28)
    ELSE IF m \in {3, 5, 8, 10} THEN 30
    ELSE 31

\* day d of month m of year y, d possibly outside the month: the date it is
RECURSIVE RollDay(_, _, _)
RollDay(y, m, d) ==
    IF d < 1
    THEN LET py == IF m = 0 THEN y - 1 ELSE y
             pm == IF m = 0 THEN 11 ELSE m - 1
         IN  RollDay(py, pm, d + DaysInMonth(py, pm))
    ELSE IF d > DaysInMonth(y, m)
    THEN RollDay(IF m = 11 THEN y + 1 ELSE y, IF m = 11 THEN 0 ELSE m + 1,
                 d - DaysInMonth(y, m))
    ELSE [year |-> y, month |-> m, day |-> d]

\* new Date(Date.UTC(year, monthIndex, day)): what getUTCFullYear, getUTCMonth
\* and getUTCDate read.  Date.UTC takes a year of 0..99 as 1900 + year.
DateUTC(year, monthIndex, day) ==
    LET full == IF year >= 0 /\ year <= 99 THEN 1900 + year ELSE year
    IN  RollDay(full + (monthIndex \div 12), monthIndex % 12, day)

\* /^\d{4}-\d{2}-\d{2}$/.test(value)
IsDatePattern(value) ==
    /\ Len(value) = 10
    /\ AllDigits(SubSeq(value, 1, 4))
    /\ CharAt(value, 5) = "-"
    /\ AllDigits(SubSeq(value, 6, 7))
    /\ CharAt(value, 8) = "-"
    /\ AllDigits(SubSeq(value, 9, 10))

\* parseExpiryDate, mutated: it returns at once when an earlier validator
\* has already failed
parseExpiryDateFirstErrorOnly(value, errors) ==
    IF errors # <<>> THEN [value |-> Null, errors |-> errors]
    ELSE IF value = ""
    THEN [value |-> Null, errors |-> Append(errors, "Expiry date is required")]
    ELSE IF ~IsDatePattern(value)
    THEN [value |-> Null,
          errors |-> Append(errors, "Expiry date must be in YYYY-MM-DD format")]
    ELSE IF DateUTC(DigitsToNumber(SubSeq(value, 1, 4), 0),
                    DigitsToNumber(SubSeq(value, 6, 7), 0) - 1,
                    DigitsToNumber(SubSeq(value, 9, 10), 0))
            # [year |-> DigitsToNumber(SubSeq(value, 1, 4), 0),
               month |-> DigitsToNumber(SubSeq(value, 6, 7), 0) - 1,
               day |-> DigitsToNumber(SubSeq(value, 9, 10), 0)]
    THEN [value |-> Null,
          errors |-> Append(errors, "Expiry date must be a valid calendar date")]
    ELSE [value |-> JStr(value), errors |-> errors]

parseExpiryDate(value, errors) ==
    IF value = ""
    THEN [value |-> Null, errors |-> Append(errors, "Expiry date is required")]
    ELSE IF ~IsDatePattern(value)
    THEN [value |-> Null,
          errors |-> Append(errors, "Expiry date must be in YYYY-MM-DD format")]
    ELSE LET year == DigitsToNumber(SubSeq(value, 1, 4), 0)
             month == DigitsToNumber(SubSeq(value, 6, 7), 0)
             day == DigitsToNumber(SubSeq(value, 9, 10), 0)
             date == DateUTC(year, month - 1, day)
         IN  IF date.year # year \/ date.month # month - 1 \/ date.day # day
             THEN [value |-> Null,
                   errors |-> Append(errors,
                                "Expiry date must be a valid calendar date")]
             ELSE [value |-> JStr(value), errors |-> errors]

\* /^\s*-\s*\[[xX]\]/.test(line)
IsCheckedBox(line) ==
    LET a == TrimStart(line)
        b == TrimStart(SubSeq(a, 2, Len(a)))
    IN  /\ a # ""
        /\ Head(a) = "-"
        /\ Len(b) >= 3
        /\ CharAt(b, 1) = "["
        /\ CharAt(b, 2) \in {"x", "X"}
        /\ CharAt(b, 3) = "]"

parseConfirmation(value, errors) ==
    IF value = ""
    THEN [value |-> FALSE,
          errors |-> Append(errors, "Confirmation checkbox is required")]
    ELSE LET lines == SplitLines(value)
             checked == \E i \in 1..Len(lines) : IsCheckedBox(lines[i])
         IN  [value |-> checked,
              errors |-> IF checked THEN errors
                         ELSE Append(errors,
                                "Confirmation checkbox must be checked")]

\* new Date(value) for a timestamp as the tracker sends it,
\* YYYY-MM-DDTHH:MM:SSZ: its fields, or valid |-> FALSE (an Invalid Date) for
\* any other string.  The other forms Date accepts are not among the inputs.
DateParse(value) ==
    LET num(i, j) == DigitsToNumber(SubSeq(value, i, j), 0)
        shaped ==
            /\ Len(value) = 20
            /\ IsDatePattern(SubSeq(value, 1, 10))
            /\ CharAt(value, 11) = "T"
            /\ AllDigits(SubSeq(value, 12, 13))
            /\ CharAt(value, 14) = ":"
            /\ AllDigits(SubSeq(value, 15, 16))
            /\ CharAt(value, 17) = ":"
            /\ AllDigits(SubSeq(value, 18, 19))
            /\ CharAt(value, 20) = "Z"
    IN  IF /\ shaped
           /\ num(6, 7) >= 1 /\ num(6, 7) <= 12
           /\ num(9, 10) >= 1
           /\ num(9, 10) <= DaysInMonth(num(1, 4), num(6, 7) - 1)
           /\ num(12, 13) <= 23 /\ num(15, 16) <= 59 /\ num(18, 19) <= 59
        THEN [valid |-> TRUE, year |-> num(1, 4), month |-> num(6, 7),
              day |-> num(9, 10), hour |-> num(12, 13), minute |-> num(15, 16),
              second |-> num(18, 19), ms |-> 0]
        ELSE [valid |-> FALSE]

\* date.toISOString()
toISOString(d) ==
    PadNumber(d.year, 4) \o "-" \o PadNumber(d.month, 2) \o "-"
    \o PadNumber(d.day, 2) \o "T" \o PadNumber(d.hour, 2) \o ":"
    \o PadNumber(d.minute, 2) \o ":" \o PadNumber(d.second, 2) \o "."
    \o PadNumber(d.ms, 3) \o "Z"

\* toIsoDate, mutated: an invalid timestamp gives null and no error
toIsoDateSilent(value, label, errors) ==
    IF ~DateParse(value).valid
    THEN [value |-> Null, errors |-> errors]
    ELSE [value |-> JStr(toISOString(DateParse(value))), errors |-> errors]

toIsoDate(value, label, errors) ==
    LET date == DateParse(value)
    IN  IF ~date.valid
        THEN [value |-> Null,
              errors |-> Append(errors,
                            "Issue " \o label \o " is not a valid timestamp")]
        ELSE [value |-> JStr(toISOString(date)), errors |-> errors]

\* new Date().toISOString().slice(0, 10) when the clock reads the date clock
TodayUtc(clock) ==
    PadNumber(clock.year, 4) \o "-" \o PadNumber(clock.month, 2) \o "-"
    \o PadNumber(clock.day, 2)

\* isExpired, mutated: a record whose expiry date is today counts as expired
isExpiredOnTheDay(expiryDate, clock) ==
    CompareStrings(expiryDate, TodayUtc(clock)) <= 0

\* isExpired(expiryDate), called while the clock reads the date clock
isExpired(expiryDate, clock) ==
    CompareStrings(expiryDate, TodayUtc(clock)) < 0

---------------------------------------------------------------------------
(* The record builder: one turn of the for-loop of buildJobs.              *)

\* lines 295-308 and 324-339: every validator in turn on one accumulator,
\* given the FieldMap fm of the issue
validateFields(fm, issue) ==
    LET company == requireValue(Field(fm, "company"), "Company name", <<>>)
        title == requireValue(Field(fm, "title"), "Role title", company.errors)
        location == requireValue(Field(fm, "location"), "Location", title.errors)
        employmentType == requireValue(Field(fm, "employmentType"),
                                       "Employment type", location.errors)
        seniority == requireValue(Field(fm, "seniority"), "Seniority",
                                  employmentType.errors)
        description == requireValue(Field(fm, "description"), "Description",
                                    seniority.errors)
        tags == parseTags(Field(fm, "tags"), description.errors)
        remote == parseRemote(Field(fm, "remote"), tags.errors)
        applyUrl == parseApplyUrl(Field(fm, "applyUrl"), remote.errors)
        expiryDate == parseExpiryDate(Field(fm, "expiryDate"), applyUrl.errors)
        confirmation == parseConfirmation(Field(fm, "confirmation"),
                                          expiryDate.errors)
        createdAt == toIsoDate(issue.created_at, "createdAt", confirmation.errors)
        updatedAt == toIsoDate(issue.updated_at, "updatedAt", createdAt.errors)
    IN  [errors |-> updatedAt.errors,
         createdAt |-> createdAt.value,
         updatedAt |-> updatedAt.value,
         title |-> title.value,
         company |-> company.value,
         location |-> location.value,
         remote |-> remote.value,
         employmentType |-> employmentType.value,
         seniority |-> seniority.value,
         tags |-> tags.value,
         applyUrl |-> applyUrl.value,
         description |-> description.value,
         salaryRange |-> IF Field(fm, "salaryRange") # ""
                         THEN JStr(Field(fm, "salaryRange")) ELSE Null,
         expiryDate |-> expiryDate.value]

\* lines 293-308: the FieldMap of the body (a null body reads as ""), then
\* the validators
validateIssue(issue) == validateFields(parseIssueForm(issue.body), issue)

\* lines 310-322, mutated: the expiry test comes before the error test
verdictExpiryFirst(v, clock) ==
    IF v.expiryDate # Null /\ isExpired(v.expiryDate.v, clock) THEN "expired"
    ELSE IF Len(v.errors) > 0 THEN "invalid"
    ELSE "live"

\* lines 310-322: what becomes of a submission whose validation gave v
verdict(v, clock) ==
    IF Len(v.errors) > 0 THEN "invalid"
    ELSE IF isExpired(v.expiryDate.v, clock) THEN "expired"
    ELSE "live"

\* lines 324-339: the JobRecord pushed to jobs
jobRecord(issue, v) ==
    [id |-> issue.number,
     createdAt |-> v.createdAt,
     updatedAt |-> v.updatedAt,
     title |-> v.title,
     company |-> v.company,
     location |-> v.location,
     remote |-> v.remote,
     employmentType |-> v.employmentType,
     seniority |-> v.seniority,
     tags |-> v.tags,
     applyUrl |-> v.applyUrl,
     description |-> v.description,
     salaryRange |-> v.salaryRange,
     expiryDate |-> v.expiryDate]

---------------------------------------------------------------------------
(* The feed: ordering and the schema.                                      *)

\* a.localeCompare(b) for two strings toISOString made: same length, digits
\* in the same places, so the collation order is the order of the code units
localeCompare(a, b) == CompareStrings(a, b)

\* the comparator of line 392, mutated: ascending
compareJobsAscending(a, b) == localeCompare(a.updatedAt.v, b.updatedAt.v)

\* the comparator of line 392
compareJobs(a, b) == localeCompare(b.updatedAt.v, a.updatedAt.v)

\* Array.prototype.sort: stable; x goes after every element that does not
\* sort after it
RECURSIVE InsertSorted(_, _)
InsertSorted(sorted, x) ==
    IF sorted = <<>> THEN <<x>>
    ELSE IF compareJobs(Head(sorted), x) <= 0
    THEN <<Head(sorted)>> \o InsertSorted(Tail(sorted), x)
    ELSE <<x>> \o sorted

RECURSIVE SortJobs(_)
SortJobs(seq) ==
    IF seq = <<>> THEN <<>>
    ELSE InsertSorted(SortJobs(SubSeq(seq, 1, Len(seq) - 1)), seq[Len(seq)])

\* the "uri" format of the schema: a scheme, and no character a URI cannot hold
IsUriFormat(s) ==
    /\ \E i \in 2..Len(s) : CharAt(s, i) = ":"
    /\ \A i \in 1..Len(s) : ~IsSpace(CharAt(s, i))

\* schema/jobs.schema.json: the shape of one JobRecord
SchemaAccepts(job) ==
    /\ job.applyUrl.t = "string" /\ IsUriFormat(job.applyUrl.v)
    /\ job.expiryDate.t = "string" /\ IsDatePattern(job.expiryDate.v)
    /\ job.remote.t = "boolean"
    /\ job.createdAt.t = "string" /\ job.updatedAt.t = "string"
    /\ job.salaryRange.t \in {"string", "null"}
    /\ Len(job.tags) >= 1

\* validate(data) of validateSchema
validateSchema(data) == \A i \in 1..Len(data) : SchemaAccepts(data[i])

---------------------------------------------------------------------------
(* The inputs of the run: issue bodies as the issue form renders them.     *)

FormOrder ==
    <<"company", "title", "location", "remote", "employmentType", "seniority",
      "tags", "applyUrl", "description", "salaryRange", "contactEmail",
      "expiryDate", "confirmation">>

FormLabel ==
    [company |-> "Company name", title |-> "Role title",
     location |-> "Location", remote |-> "Remote",
     employmentType |-> "Employment type", seniority |-> "Seniority",
     tags |-> "Tags / keywords", applyUrl |-> "Apply URL",
     description |-> "Description", salaryRange |-> "Salary range",
     contactEmail |-> "Contact email", expiryDate |-> "Expiry date",
     confirmation |-> "Confirmation"]

\* the body of an issue whose form was filled with answers; a key answers
\* lacks has no section
RenderForm(answers) ==
    ConcatRange([i \in 1..Len(FormOrder) |->
                    IF FormOrder[i] \in DOMAIN answers
                    THEN "### " \o FormLabel[FormOrder[i]] \o "\n"
                         \o answers[FormOrder[i]] \o "\n"
                    ELSE ""],
                1, Len(FormOrder))

LiveAnswers ==
    [company |-> "Acme", title |-> "Engineer", location |-> "Lisbon",
     remote |-> "Yes", employmentType |-> "Full-time", seniority |-> "Senior",
     tags |-> "Remote, REMOTE, backend, remote",
     applyUrl |-> "https://acme.io/jobs/1", description |-> "Build things.",
     salaryRange |-> "_No response_", contactEmail |-> "_No response_",
     expiryDate |-> "2024-06-30", confirmation |-> "- [x] I confirm"]

\* valid, past its expiry date on every day of the run
ExpiredAnswers ==
    [LiveAnswers EXCEPT !.expiryDate = "2024-06-28", !.salaryRange = "50k",
                        !.remote = "no"]

\* no apply URL and no expiry date section
MissingAnswers ==
    [k \in DOMAIN LiveAnswers \ {"expiryDate"} |->
        IF k = "applyUrl" THEN "_No response_" ELSE LiveAnswers[k]]

\* invalid and past its expiry date
BadRemoteAnswers ==
    [LiveAnswers EXCEPT !.remote = "maybe", !.expiryDate = "2024-06-28"]

\* valid for the validators; the URL holds a space
SpaceUrlAnswers ==
    [LiveAnswers EXCEPT !.applyUrl = "https://acme.io/open roles",
                        !.expiryDate = "2024-07-15"]

EarlyStamp ==
    [created_at |-> "2024-01-01T08:30:00Z", updated_at |-> "2024-01-02T00:00:00Z"]
LateStamp ==
    [created_at |-> "2024-01-01T08:30:00Z", updated_at |-> "2024-01-03T00:00:00Z"]
BadStamp == [created_at |-> "", updated_at |-> "yesterday"]

\* what the tracker returns for one issue, its number apart
RawIssue(answers, stamp) ==
    [title |-> "Job posting", body |-> RenderForm(answers),
     created_at |-> stamp.created_at, updated_at |-> stamp.updated_at]

RawIssues ==
    {RawIssue(LiveAnswers, EarlyStamp), RawIssue(LiveAnswers, LateStamp),
     RawIssue(LiveAnswers, BadStamp), RawIssue(ExpiredAnswers, EarlyStamp),
     RawIssue(MissingAnswers, EarlyStamp),
     RawIssue(BadRemoteAnswers, LateStamp),
     RawIssue(SpaceUrlAnswers, LateStamp)}

\* the batches fetchApprovedIssues can return: issue i has number 100 + i
Batches ==
    UNION {[1..n -> RawIssues] : n \in 0..MaxIssues}

Numbered(batch) ==
    [i \in 1..Len(batch) |->
        [number |-> 100 + i, title |-> batch[i].title, body |-> batch[i].body,
         created_at |-> batch[i].created_at, updated_at |-> batch[i].updated_at]]

\* validateIssue of every issue a batch can hold, evaluated once
Validation == [raw \in RawIssues |-> validateIssue(raw)]

Validated(issue) ==
    Validation[[title |-> issue.title, body |-> issue.body,
                created_at |-> issue.created_at,
                updated_at |-> issue.updated_at]]

\* the date the run starts on
StartDate == [year |-> 2024, month |-> 6, day |-> 29]

\* the feed a previous run left
PreviousFeed ==
    <<jobRecord([number |-> 7], Validation[RawIssue(LiveAnswers, EarlyStamp)])>>

---------------------------------------------------------------------------
(* The run.                                                                *)

FormIdle == body = "" /\ fields = EmptyFields /\ formDone = FALSE
TagsIdle == tagValue = "" /\ tagResult = [value |-> <<>>, errors |-> <<>>]
            /\ tagDone = FALSE

Init ==
    /\ pc = "build"
    /\ issues \in {Numbered(b) : b \in Batches}
    /\ idx = 0
    /\ jobs = <<>>
    /\ invalidIssues = <<>>
    /\ expiredCount = 0
    /\ now = StartDate
    /\ ticks = 0
    /\ file \in {[exists |-> FALSE, content |-> <<>>, writes |-> 0],
                 [exists |-> TRUE, content |-> PreviousFeed, writes |-> 0]}
    /\ outcome = "running"
    /\ log = <<>>
    /\ FormIdle
    /\ TagsIdle

\* the wall clock passes UTC midnight; new Date() (line 225) reads it, and
\* nothing reads the clock once buildJobs has returned
Tick ==
    /\ pc = "build"
    /\ ticks < MaxTicks
    /\ LET next == RollDay(now.year, now.month - 1, now.day + 1)
       IN  now' = [year |-> next.year, month |-> next.month + 1,
                   day |-> next.day]
    /\ ticks' = ticks + 1
    /\ UNCHANGED <<pc, issues, idx, jobs, invalidIssues, expiredCount, file,
                   outcome, log>>
    /\ UNCHANGED <<formVars, tagVars>>

\* one turn of the for-loop of buildJobs (lines 291-340)
BuildIssue ==
    /\ pc = "build"
    /\ idx < Len(issues)
    /\ \E issue \in {issues[idx + 1]} :
       \E v \in {Validated(issue)} :
       \E what \in {verdict(v, now)} :
           /\ invalidIssues' =
                IF what = "invalid"
                THEN Append(invalidIssues,
                            [number |-> issue.number, title |-> issue.title,
                             errors |-> v.errors])
                ELSE invalidIssues
           /\ expiredCount' =
                IF what = "expired" THEN expiredCount + 1 ELSE expiredCount
           /\ jobs' = IF what = "live" THEN Append(jobs, jobRecord(issue, v))
                      ELSE jobs
           /\ log' = Append(log, [number |-> issue.number, verdict |-> what,
                                  today |-> now])
    /\ idx' = idx + 1
    /\ UNCHANGED <<pc, issues, now, ticks, file, outcome>>
    /\ UNCHANGED <<formVars, tagVars>>

\* lines 385-390: buildJobs has returned invalid issues; main throws
ThrowInvalid ==
    /\ pc = "build"
    /\ idx = Len(issues)
    /\ Len(invalidIssues) > 0
    /\ pc' = "done"
    /\ outcome' = "invalid issues"
    /\ UNCHANGED <<issues, idx, jobs, invalidIssues, expiredCount, now, ticks,
                   file, log>>
    /\ UNCHANGED <<formVars, tagVars>>

\* lines 385-395, mutated: invalid issues are skipped and the rest is written
WriteFeedSkippingInvalid ==
    /\ pc = "build"
    /\ idx = Len(issues)
    /\ jobs' = SortJobs(jobs)
    /\ file' = [exists |-> TRUE, content |-> jobs', writes |-> file.writes + 1]
    /\ pc' = "written"
    /\ UNCHANGED <<issues, idx, invalidIssues, expiredCount, now, ticks,
                   outcome, log>>
    /\ UNCHANGED <<formVars, tagVars>>

\* lines 385-395: no invalid issue; main sorts jobs and writes the file
WriteFeed ==
    /\ pc = "build"
    /\ idx = Len(issues)
    /\ ~(Len(invalidIssues) > 0)
    /\ jobs' = SortJobs(jobs)
    /\ file' = [exists |-> TRUE, content |-> jobs', writes |-> file.writes + 1]
    /\ pc' = "written"
    /\ UNCHANGED <<issues, idx, invalidIssues, expiredCount, now, ticks,
                   outcome, log>>
    /\ UNCHANGED <<formVars, tagVars>>

\* lines 397-400: the schema accepts the feed; main returns
SchemaPasses ==
    /\ pc = "written"
    /\ validateSchema(jobs)
    /\ pc' = "done"
    /\ outcome' = "ok"
    /\ UNCHANGED <<issues, idx, jobs, invalidIssues, expiredCount, now, ticks,
                   file, log>>
    /\ UNCHANGED <<formVars, tagVars>>

\* lines 397 and 352-357: the schema rejects the feed; validateSchema throws
SchemaFails ==
    /\ pc = "written"
    /\ ~validateSchema(jobs)
    /\ pc' = "done"
    /\ outcome' = "schema validation failed"
    /\ UNCHANGED <<issues, idx, jobs, invalidIssues, expiredCount, now, ticks,
                   file, log>>
    /\ UNCHANGED <<formVars, tagVars>>

Next ==
    \/ Tick
    \/ BuildIssue
    \/ ThrowInvalid
    \/ WriteFeed
    \/ SchemaPasses
    \/ SchemaFails

Spec == Init /\ [][Next]_vars

---------------------------------------------------------------------------
(* parseIssueForm alone, on every body of up to MaxLines lines.            *)

\* two spellings of the company heading, another recognized heading, a plain
\* line, a heading outside the vocabulary and a blank line
FormLines ==
    {"### Company Name", "## company name:", "### Role Title", "Acme",
     "## Beta", ""}

FormBodies ==
    {JoinLines(ls) : ls \in UNION {[1..n -> FormLines] : n \in 0..MaxLines}}

RunIdle ==
    /\ pc = "idle" /\ issues = <<>> /\ idx = 0 /\ jobs = <<>>
    /\ invalidIssues = <<>> /\ expiredCount = 0 /\ now = StartDate
    /\ ticks = 0 /\ file = [exists |-> FALSE, content |-> <<>>, writes |-> 0]
    /\ outcome = "running" /\ log = <<>>

InitForm ==
    /\ RunIdle
    /\ TagsIdle
    /\ body \in FormBodies
    /\ fields = EmptyFields
    /\ formDone = FALSE

\* a call of parseIssueForm(body)
ParseForm ==
    /\ ~formDone
    /\ fields' = parseIssueForm(body)
    /\ formDone' = TRUE
    /\ UNCHANGED <<body, runVars, tagVars>>

NextForm == ParseForm

SpecForm == InitForm /\ [][NextForm]_vars

---------------------------------------------------------------------------
(* parseTags alone, on every value of up to MaxPieces pieces.              *)

TagPieces == {"Remote", " REMOTE", "backend ", " remote", "", " "}

\* pieces.join(",")
JoinCommas(pieces) ==
    ConcatRange([i \in 1..Len(pieces) |->
                    IF i < Len(pieces) THEN pieces[i] \o "," ELSE pieces[i]],
                1, Len(pieces))

TagValues ==
    {JoinCommas(ps) : ps \in UNION {[1..n -> TagPieces] : n \in 0..MaxPieces}}

InitTags ==
    /\ RunIdle
    /\ FormIdle
    /\ tagValue \in TagValues
    /\ tagResult = [value |-> <<>>, errors |-> <<>>]
    /\ tagDone = FALSE

\* a call of parseTags(tagValue, [])
ParseTags ==
    /\ ~tagDone
    /\ tagResult' = parseTags(tagValue, <<>>)
    /\ tagDone' = TRUE
    /\ UNCHANGED <<tagValue, runVars, formVars>>

NextTags == ParseTags

SpecTags == InitTags /\ [][NextTags]_vars

---------------------------------------------------------------------------
(* Notions the properties are stated in.                                   *)

\* the validation of the i-th issue of the batch
Checked(i) == Validated(issues[i])

\* the calendar date a YYYY-MM-DD string names
CalendarDate(s) ==
    [year |-> DigitsToNumber(SubSeq(s, 1, 4), 0),
     month |-> DigitsToNumber(SubSeq(s, 6, 7), 0),
     day |-> DigitsToNumber(SubSeq(s, 9, 10), 0)]

\* calendar date a is earlier than calendar date b
Earlier(a, b) ==
    \/ a.year < b.year
    \/ a.year = b.year /\ a.month < b.month
    \/ a.year = b.year /\ a.month = b.month /\ a.day < b.day

\* the instant an ISO-8601 string names, as <<year, ..., second, ms>>
Instant(s) ==
    <<DigitsToNumber(SubSeq(s, 1, 4), 0), DigitsToNumber(SubSeq(s, 6, 7), 0),
      DigitsToNumber(SubSeq(s, 9, 10), 0), DigitsToNumber(SubSeq(s, 12, 13), 0),
      DigitsToNumber(SubSeq(s, 15, 16), 0), DigitsToNumber(SubSeq(s, 18, 19), 0),
      DigitsToNumber(SubSeq(s, 21, 23), 0)>>

\* instant a is later than instant b
Later(a, b) ==
    \E k \in 1..Len(a) : a[k] > b[k] /\ \A m \in 1..(k - 1) : a[m] = b[m]

\* the messages of the validators, each run alone on an empty accumulator,
\* in the order buildJobs calls them
OwnErrors(fm, issue) ==
    requireValue(Field(fm, "company"), "Company name", <<>>).errors
    \o requireValue(Field(fm, "title"), "Role title", <<>>).errors
    \o requireValue(Field(fm, "location"), "Location", <<>>).errors
    \o requireValue(Field(fm, "employmentType"), "Employment type", <<>>).errors
    \o requireValue(Field(fm, "seniority"), "Seniority", <<>>).errors
    \o requireValue(Field(fm, "description"), "Description", <<>>).errors
    \o parseTags(Field(fm, "tags"), <<>>).errors
    \o parseRemote(Field(fm, "remote"), <<>>).errors
    \o parseApplyUrl(Field(fm, "applyUrl"), <<>>).errors
    \o parseExpiryDate(Field(fm, "expiryDate"), <<>>).errors
    \o parseConfirmation(Field(fm, "confirmation"), <<>>).errors
    \o toIsoDate(issue.created_at, "createdAt", <<>>).errors
    \o toIsoDate(issue.updated_at, "updatedAt", <<>>).errors

AllErrors == [raw \in RawIssues |-> OwnErrors(parseIssueForm(raw.body), raw)]

AllErrorsOf(issue) ==
    AllErrors[[title |-> issue.title, body |-> issue.body,
               created_at |-> issue.created_at,
               updated_at |-> issue.updated_at]]

\* the issue lacks both the apply URL and the expiry date
LacksUrlAndExpiry(issue) ==
    /\ Field(parseIssueForm(issue.body), "applyUrl") = ""
    /\ Field(parseIssueForm(issue.body), "expiryDate") = ""

LacksBoth == [raw \in RawIssues |-> LacksUrlAndExpiry(raw)]

LacksBothOf(issue) ==
    LacksBoth[[title |-> issue.title, body |-> issue.body,
               created_at |-> issue.created_at,
               updated_at |-> issue.updated_at]]

\* the positions of the batch whose issue got the verdict what
WithVerdict(what) == {i \in 1..Len(log) : log[i].verdict = what}

---------------------------------------------------------------------------
(* The properties.                                                         *)

\* C1: all-or-nothing publish gate.  When a submission of the batch fails
\* validation, wherever it stands and however many others are valid, the
\* run ends in the fatal error and never writes the feed file.
C1_PublishGate ==
    (\/ \E i \in 1..Len(issues) : Len(Checked(i).errors) > 0
     \/ Len(invalidIssues) > 0)
    => /\ file.writes = 0
       /\ file.content \in {<<>>, PreviousFeed}
       /\ pc \in {"build", "done"}
       /\ pc = "done" => outcome = "invalid issues"

\* C1 witness: the third issue of three is the only invalid one, the run has
\* ended fatally and the previous feed is still in the file.
C1_Witness ==
    /\ pc = "done" /\ outcome = "invalid issues"
    /\ Len(issues) = 3
    /\ Len(invalidIssues) = 1 /\ invalidIssues[1].number = 103
    /\ file.exists /\ file.content = PreviousFeed

\* C2: schema gate before publish.  The feed file is written only after the
\* feed has passed schema validation, and a run that ends with a schema
\* failure leaves the file unwritten.
C2_SchemaGate ==
    /\ file.writes > 0 => outcome = "ok"
    /\ outcome = "schema validation failed" => file.writes = 0

\* C3: expiry boundary.  A valid submission is excluded, and counted in
\* expiredCount and not reported as an error, exactly when its expiry date
\* is a calendar date before the UTC date read when it was examined; every
\* record of jobs has an expiry date on or after that date.
C3_ExpiryBoundary ==
    /\ \A i \in 1..Len(log) :
          log[i].verdict # "invalid" =>
              (log[i].verdict = "expired"
               <=> Earlier(CalendarDate(Checked(i).expiryDate.v), log[i].today))
    /\ expiredCount = Cardinality(WithVerdict("expired"))
    /\ \A i \in WithVerdict("expired") :
          \A k \in 1..Len(invalidIssues) :
              invalidIssues[k].number # issues[i].number
    /\ \A j \in 1..Len(jobs) :
          \E i \in 1..Len(log) :
              /\ log[i].number = jobs[j].id
              /\ ~Earlier(CalendarDate(jobs[j].expiryDate.v), log[i].today)

\* C3 witness: one record kept on its expiry date, another with the same
\* expiry date dropped the day after.
C3_Witness ==
    \E i, j \in 1..Len(log) :
        /\ log[i].verdict = "live"
        /\ CalendarDate(Checked(i).expiryDate.v) = log[i].today
        /\ log[j].verdict = "expired"
        /\ Checked(j).expiryDate.v = "2024-06-30"
        /\ log[j].today = [year |-> 2024, month |-> 7, day |-> 1]

\* the field key of each line that is a recognized heading, "" for the rest
KeysOf(lines) == [i \in 1..Len(lines) |-> HeadingKey(lines[i])]

\* the lines under the heading at line i: up to the next recognized heading
SectionUnder(lines, keys, i) ==
    SubSeq(lines, i + 1,
           Min({h \in (i + 1)..Len(lines) : keys[h] # ""}
               \cup {Len(lines) + 1}) - 1)

\* the FieldMap fm gives each key the content under its first heading in
\* lines, and no other key
FirstSectionsOnly(fm, lines, keys) ==
    /\ DOMAIN fm = {keys[i] : i \in 1..Len(lines)} \ {""}
    /\ \A key \in DOMAIN fm :
          fm[key] =
              normalizeValue(Trim(JoinLines(
                  SectionUnder(lines, keys,
                               Min({i \in 1..Len(lines) : keys[i] = key})))))

\* C4: heading precedence.  Each field of the FieldMap is the content under
\* the first heading of its key; the lines under a later heading of the key
\* belong to no field: they neither replace the value nor extend the field
\* that was open before.
C4_HeadingPrecedence ==
    formDone =>
        \A lines \in {SplitLines(body)} :
            \A keys \in {KeysOf(lines)} : FirstSectionsOnly(fields, lines, keys)

\* C4 witness: the company heading comes twice, with another field between.
C4_Witness ==
    /\ formDone
    /\ body = "### Company Name\nAcme\n### Role Title\n## company name:\n## Beta"
    /\ fields = [company |-> "Acme", title |-> ""]

\* the pieces of the value, trimmed, the empty ones dropped
TrimmedPieces ==
    SelectSeq([i \in 1..Len(Split(tagValue, ",")) |->
                  Trim(Split(tagValue, ",")[i])],
              NonEmpty)

\* piece i is the first of its spelling, letter case aside
FirstOfItsKind(i) ==
    \A j \in 1..(i - 1) :
        ToLowerCase(TrimmedPieces[j]) # ToLowerCase(TrimmedPieces[i])

\* C8: tag dedup.  For a non-empty value the tags are the trimmed non-empty
\* pieces, no two equal case-insensitively, each in the casing and at the
\* place of its first occurrence; with no piece left the error "Tags/keywords
\* must include at least one value" is recorded.
C8_TagDedup ==
    (tagDone /\ tagValue # "") =>
        LET tags == tagResult.value
        IN  /\ \A a, b \in 1..Len(tags) :
                  a # b => ToLowerCase(tags[a]) # ToLowerCase(tags[b])
            /\ \A i \in 1..Len(TrimmedPieces) :
                  \E a \in 1..Len(tags) :
                      ToLowerCase(tags[a]) = ToLowerCase(TrimmedPieces[i])
            /\ \A a \in 1..Len(tags) :
                  \E i \in 1..Len(TrimmedPieces) :
                      FirstOfItsKind(i) /\ tags[a] = TrimmedPieces[i]
            /\ \A a, b \in 1..Len(tags) :
                  a < b =>
                      \E i, j \in 1..Len(TrimmedPieces) :
                          /\ i < j
                          /\ FirstOfItsKind(i) /\ tags[a] = TrimmedPieces[i]
                          /\ FirstOfItsKind(j) /\ tags[b] = TrimmedPieces[j]
            /\ tagResult.errors =
                  IF TrimmedPieces = <<>>
                  THEN <<"Tags/keywords must include at least one value">>
                  ELSE <<>>

\* C8 witness: "Remote", "REMOTE", "backend", "remote" give Remote, backend.
C8_Witness ==
    /\ tagDone
    /\ tagValue = "Remote, REMOTE,backend , remote"
    /\ tagResult = [value |-> <<"Remote", "backend">>, errors |-> <<>>]

\* C5: all errors collected.  The error list of a failing submission holds
\* the message of every validator that fails on it, in the order the
\* validators run; one that lacks both the apply URL and the expiry date
\* reports both.
C5_AllErrors ==
    \A k \in 1..Len(invalidIssues) :
        \E i \in 1..idx :
            /\ issues[i].number = invalidIssues[k].number
            /\ invalidIssues[k].errors = AllErrorsOf(issues[i])
            /\ LacksBothOf(issues[i]) =>
                  \E a, b \in 1..Len(invalidIssues[k].errors) :
                      /\ a < b
                      /\ invalidIssues[k].errors[a] = "Apply URL is required"
                      /\ invalidIssues[k].errors[b] = "Expiry date is required"

\* C5 witness: a submission without apply URL and expiry date.
C5_Witness ==
    \E k \in 1..Len(invalidIssues) :
        invalidIssues[k].errors =
            <<"Apply URL is required", "Expiry date is required">>

\* C6: feed ordering.  The feed written is the live records sorted by
\* updatedAt descending, records of equal updatedAt in the order of the
\* batch.
C6_FeedOrder ==
    file.writes > 0 =>
        /\ Len(file.content) = Cardinality(WithVerdict("live"))
        /\ \A i \in WithVerdict("live") :
              \E a \in 1..Len(file.content) :
                  file.content[a].id = issues[i].number
        /\ \A a, b \in 1..Len(file.content) :
              a < b =>
                  \/ Later(Instant(file.content[a].updatedAt.v),
                           Instant(file.content[b].updatedAt.v))
                  \/ /\ Instant(file.content[a].updatedAt.v)
                        = Instant(file.content[b].updatedAt.v)
                     /\ file.content[a].id < file.content[b].id

\* C6 witness: A, B, C updated on 2024-01-02, 2024-01-03, 2024-01-02 are
\* written as B, A, C.
C6_Witness ==
    /\ file.writes > 0
    /\ Len(issues) = 3
    /\ issues[1].updated_at = "2024-01-02T00:00:00Z"
    /\ issues[2].updated_at = "2024-01-03T00:00:00Z"
    /\ issues[3].updated_at = "2024-01-02T00:00:00Z"
    /\ [a \in 1..Len(file.content) |-> file.content[a].id] = <<102, 101, 103>>

\* C7: JobRecord invariant.  Every record of jobs comes from a submission
\* with no error and holds no invalid sentinel; a submission with an error
\* yields no record.
C7_JobRecord ==
    /\ \A j \in 1..Len(jobs) :
          /\ jobs[j].company # "" /\ jobs[j].title # ""
          /\ jobs[j].location # "" /\ jobs[j].employmentType # ""
          /\ jobs[j].seniority # "" /\ jobs[j].description # ""
          /\ jobs[j].remote \in {JBool(TRUE), JBool(FALSE)}
          /\ jobs[j].applyUrl # Null /\ jobs[j].expiryDate # Null
          /\ jobs[j].createdAt # Null /\ jobs[j].updatedAt # Null
          /\ Len(jobs[j].tags) >= 1
          /\ \E i \in 1..idx :
                issues[i].number = jobs[j].id /\ AllErrorsOf(issues[i]) = <<>>
    /\ \A i \in 1..idx :
          AllErrorsOf(issues[i]) # <<>> =>
              \A j \in 1..Len(jobs) : jobs[j].id # issues[i].number

\* C7 witness: of two submissions examined, the one with invalid timestamps
\* yielded no record and the other did.
C7_Witness ==
    /\ idx = 2 /\ Len(jobs) = 1
    /\ issues[1].created_at = "" /\ jobs[1].id = 102
    /\ jobs[1].remote = JBool(TRUE)

\* C9: validation takes precedence over expiry.  A submission with an error
\* is recorded as a validation failure, whatever its expiry date, and fails
\* the run; only submissions without error count in expiredCount.
C9_ValidationFirst ==
    /\ \A i \in 1..Len(log) :
          Len(Checked(i).errors) > 0 =>
              /\ log[i].verdict = "invalid"
              /\ \E k \in 1..Len(invalidIssues) :
                    invalidIssues[k].number = issues[i].number
              /\ pc = "done" => outcome = "invalid issues"
    /\ expiredCount =
          Cardinality({i \in 1..Len(log) :
                          /\ Len(Checked(i).errors) = 0
                          /\ log[i].verdict = "expired"})

\* C9 witness: a submission with a bad Remote answer and an expiry date in
\* the past has failed the run, and nothing was counted as expired.
C9_Witness ==
    /\ pc = "done" /\ outcome = "invalid issues"
    /\ expiredCount = 0
    /\ \E i \in 1..Len(log) :
          /\ Checked(i).remote = Null
          /\ Checked(i).expiryDate = JStr("2024-06-28")
          /\ log[i].verdict = "invalid"

\* C10: one today per run.  Two valid records of a batch with the same
\* expiry date get the same decision, also when the clock passes UTC
\* midnight while the batch is processed.
C10_OneToday ==
    \A i, j \in 1..Len(log) :
        (/\ log[i].verdict # "invalid"
         /\ log[j].verdict # "invalid"
         /\ Checked(i).expiryDate = Checked(j).expiryDate)
        => log[i].verdict = log[j].verdict

=============================================================================
